---- MODULE Spec2Model ----
(***************************************************************************)
(* The request handler of the fragment server (lib/request-handler.js):    *)
(* one request, from processRequest to the end of the response.            *)
(*                                                                         *)
(* The handler's own code is modelled statement by statement.  The         *)
(* Template Processor and the Fragment are collaborators whose code is not *)
(* part of the handler; they are modelled from their contract (spec.md     *)
(* sections 3, 4.3, 4.4 and 8) as the sources of the events the handler    *)
(* subscribes to.                                                          *)
(*                                                                         *)
(* Everything the handler does that can be observed from outside (events   *)
(* emitted on the handler, response.writeHead, pipe and response.end) is   *)
(* appended to the variable log in the order the code performs it.         *)
(*                                                                         *)
(* Four more components have their own variables and specifications: the   *)
(* index generators of concurrent requests (SpecIndex), the re-emission of *)
(* fragment events on the handler (SpecRelay), the preload hints composed  *)
(* from the primary fragment's link header (SpecLink), and the browser     *)
(* side, src/pipe.js (SpecDom for what end() does to the document,         *)
(* SpecPipe for the initialisation of the fragments and the hooks).        *)
(***************************************************************************)
EXTENDS Integers, Sequences, FiniteSets, TLC

\* Largest number of fragment tokens in a parsed template.
MaxFragments == 2

(***************************************************************************)
(* Inputs                                                                  *)
(***************************************************************************)
\* fragment.attributes: the two attributes that decide a fragment's events.
Attributes == [primary : BOOLEAN, fallbackUrl : BOOLEAN]

\* The fragment tokens of a parsed template, in template order.
Templates == UNION {[1..n -> Attributes] : n \in 0..MaxFragments}

\* Status codes an upstream fragment answers 'response' with.
UpstreamStatus == {200, 301}

\* Upstream response headers of a fragment: is there a location header, and
\* is the link header absent, without preloadable refs, or with some.
UpstreamHeaders ==
    { [location |-> FALSE, link |-> "none"],
      [location |-> FALSE, link |-> "norefs"],
      [location |-> TRUE, link |-> "assets"] }

\* What filterResponseHeaders(attributes, headers) returns: the names of
\* the upstream headers it lets through.
FilteredHeaders == {{"x-upstream"}}

\* err.presentable: undefined, a string, or a value that is not a string.
Presentables ==
    { [type |-> "undefined", value |-> ""],
      [type |-> "string", value |-> "sorry"],
      [type |-> "number", value |-> "42"] }

\* Errors fetchTemplate rejects with.
Errors == [code : {"TEMPLATE_NOT_FOUND", "OTHER"}, presentable : Presentables]

\* Errors the processor raises.
ProcessorErrors == {err \in Errors : err.presentable.type = "undefined"}

\* The err field of a promise or stream that has not failed.
NoError == [code |-> "none", presentable |-> [type |-> "undefined", value |-> ""]]

\* How a request starts: is options.filterResponseHeaders a function, and
\* response.statusCode before the handler runs (0: not set, falsy).  The
\* first is read on the primary 'response' path only (line 133) and the
\* second on the 'finish' path only (line 202), so each value appears once.
Requests ==
    { [filterResponseHeaders |-> FALSE, statusCode |-> 0],
      [filterResponseHeaders |-> TRUE, statusCode |-> 203] }

\* The headers object of line 90-95.
BaselineHeaders == {"Cache-Control", "Pragma", "Content-Type"}

(***************************************************************************)
(* State                                                                   *)
(***************************************************************************)
VARIABLES
    options,              \* [filterResponseHeaders: is it a function]
    fetchContext,         \* "pending" | "resolved" | "rejected"
    contextPromise,       \* fetchContext(request).catch(...): [state, value]
    templatePromise,      \* [state, value, err]
    promiseAll,           \* "pending" | "then" | "catch"  (line 170-220)
    resultStream,         \* the processor: [created, found, finished,
                          \* errored, err, ended]
    fragments,            \* per fragment token: "none" | "requesting" |
                          \* "retrying" | "streaming" | "closed"
    upstream,             \* per fragment token with the primary attribute:
                          \* the status its 'response' carried, 0 before
    shouldWriteHead,      \* line 97
    responseHeaders,      \* line 90: the header names set so far
    primary,              \* index of the fragment whose primary handlers are
                          \* registered (line 131-167), 0 when none
    listeners,            \* the once-listeners of that fragment still armed
    contentLengthStream,  \* [ended, piped]
    response,             \* [statusCode]
    log                   \* observable effects, in order

vars ==
    << options, fetchContext, contextPromise, templatePromise, promiseAll,
       resultStream, fragments, upstream, shouldWriteHead, responseHeaders,
       primary, listeners, contentLengthStream, response, log >>

\* The index generators of the requests in flight (line 53-61, 173-176).
VARIABLES
    maxAssetLinks,        \* options.maxAssetLinks (line 174)
    nextIndex,            \* per request: the closure of line 56-60,
                          \* [created, index, step]
    indices               \* per request: what its nextIndex() calls returned

indexVars == << maxAssetLinks, nextIndex, indices >>

\* The lifecycle events of the fragments the processor has announced and
\* their re-emission on the handler (line 5-13, 184-196).
VARIABLES
    lifecycle,            \* per announced fragment: [phase, fallbackUrl]
    onceListeners,        \* per announced fragment: the events of
                          \* FRAGMENT_EVENTS whose once-listener is armed
    emitted,              \* per announced fragment and event: how often
                          \* the fragment has emitted it
    reemitted             \* per announced fragment and event: how often
                          \* the handler has emitted 'fragment:<event>'

relayVars == << lifecycle, onceListeners, emitted, reemitted >>

\* The link header of the primary fragment's response and what the
\* 'response' listener makes of it (line 18-51, 144-150).
VARIABLES
    headersLink,          \* headers.link: [present, refs], refs as
                          \* LinkHeader.parse returns them, [rel, uri]
    requestHost,          \* request.headers.host, << >> when undefined
    responseLink          \* responseHeaders.link after the listener:
                          \* [responded, set, value]

linkVars == << headersLink, requestHost, responseLink >>

\* The page in the browser and the state of src/pipe.js.
VARIABLES
    childNodes,           \* the child nodes of the body parsed so far
    readyState,           \* doc.readyState
    placeholders,         \* pipe.js line 2
    starts,               \* pipe.js line 3
    initState,            \* pipe.js line 6
    streamed,             \* per fragment of the page: [async, script, phase,
                          \* content, module, init, node]
    hookCalls,            \* per fragment: the hooks of line 12-14 called
                          \* for it, in order
    onDoneCalls           \* doc.readyState at each call of hooks.onDone

pipeVars ==
    << childNodes, readyState, placeholders, starts, initState, streamed,
       hookCalls, onDoneCalls >>

\* The variables of the other components: a step of the request handler
\* leaves them alone.
otherVars == << indexVars, relayVars, linkVars, pipeVars >>

\* What a step of the index generators leaves alone.
besidesIndex == << vars, relayVars, linkVars, pipeVars >>

\* What a step of the event relay leaves alone.
besidesRelay == << vars, indexVars, linkVars, pipeVars >>

\* What the composition of the link header leaves alone.
besidesLink == << vars, indexVars, relayVars, pipeVars >>

\* What a step of the page leaves alone.
besidesPipe == << vars, indexVars, relayVars, linkVars >>

\* Every variable.
allVars == << vars, otherVars >>

\* One observable effect.  op is "emit" (an event on the handler, arg its
\* name), "writeHead", "pipe" (resultStream.pipe(contentLengthStream)
\* .pipe(response)) or "end" (response.end, arg the body or "<none>").
\* by names the handler that performed it.
Entry(op, arg, status, headers, by) ==
    [op |-> op, arg |-> arg, status |-> status, headers |-> headers, by |-> by]

Emit(name, by) == Entry("emit", name, 0, {}, by)
EmitResponse(status, headers, by) == Entry("emit", "response", status, headers, by)
WriteHead(status, headers, by) == Entry("writeHead", "", status, headers, by)
Pipe(by) == Entry("pipe", "", 0, {}, by)
End(body, by) == Entry("end", body, 0, {}, by)

Init ==
    /\ \E r \in Requests :
           /\ options = [filterResponseHeaders |-> r.filterResponseHeaders]
           /\ response = [statusCode |-> r.statusCode]
    /\ fetchContext = "pending"
    /\ contextPromise = [state |-> "pending", value |-> "none"]
    /\ templatePromise =
           [state |-> "pending", value |-> << >>, err |-> NoError]
    /\ promiseAll = "pending"
    /\ resultStream =
           [created |-> FALSE, found |-> 0, finished |-> FALSE,
            errored |-> FALSE, err |-> NoError, ended |-> FALSE]
    /\ fragments = << >>
    /\ upstream = << >>
    /\ shouldWriteHead = TRUE
    /\ responseHeaders = BaselineHeaders
    /\ primary = 0
    /\ listeners = {}
    /\ contentLengthStream = [ended |-> FALSE, piped |-> FALSE]
    /\ log = << Emit("start", "processRequest") >>

(***************************************************************************)
(* The handler's code                                                      *)
(***************************************************************************)
\* getAssetsToPreload (line 26-51), as far as the head needs it: '' when the
\* link header has neither script nor style refs, the joined hints otherwise.
getAssetsToPreload(headers) ==
    IF headers.link = "assets" THEN "preload" ELSE ""

\* What contentLengthStream.end() makes observable: the completion callback
\* (line 99-101) emits 'end' once, and a meter piped into the response ends
\* the response.
EndOfMeter ==
    IF contentLengthStream.ended
    THEN << >>
    ELSE << Emit("end", "contentLengthStream") >>
         \o (IF contentLengthStream.piped
             THEN << End("<none>", "pipe") >> ELSE << >>)

\* What resultStream.pipe(contentLengthStream).pipe(response) makes
\* observable: the pipe itself, and the end of the response when the meter
\* was ended before it was piped.
PipeThroughMeter(by) ==
    << Pipe(by) >>
    \o (IF contentLengthStream.ended /\ ~contentLengthStream.piped
        THEN << End("<none>", "pipe") >> ELSE << >>)

\* handleError without the TEMPLATE_NOT_FOUND test of line 108-110.
handleErrorAlways500(err) ==
    /\ IF shouldWriteHead
       THEN /\ shouldWriteHead' = FALSE
            /\ log' = log \o
                 << Emit("error", "handleError"),
                    WriteHead(500, responseHeaders, "handleError"),
                    End(IF err.presentable.type = "string"
                        THEN err.presentable.value ELSE "<none>", "handleError") >>
            /\ UNCHANGED contentLengthStream
       ELSE /\ log' = log \o << Emit("error", "handleError") >> \o EndOfMeter
            /\ contentLengthStream' = [contentLengthStream EXCEPT !.ended = TRUE]
            /\ UNCHANGED shouldWriteHead
    /\ UNCHANGED << responseHeaders, primary, listeners, response >>

\* handleError writing its head without clearing the latch of line 105.
handleErrorLeavesLatch(err) ==
    /\ IF shouldWriteHead
       THEN /\ log' = log \o
                 << Emit("error", "handleError"),
                    WriteHead(IF err.code = "TEMPLATE_NOT_FOUND" THEN 404 ELSE 500,
                              responseHeaders, "handleError"),
                    End(IF err.presentable.type = "string"
                        THEN err.presentable.value ELSE "<none>", "handleError") >>
            /\ UNCHANGED contentLengthStream
       ELSE /\ log' = log \o << Emit("error", "handleError") >> \o EndOfMeter
            /\ contentLengthStream' = [contentLengthStream EXCEPT !.ended = TRUE]
    /\ UNCHANGED << shouldWriteHead, responseHeaders, primary, listeners, response >>

\* line 103-122
handleError(err) ==
    /\ IF shouldWriteHead
       THEN /\ shouldWriteHead' = FALSE
            /\ log' = log \o
                 << Emit("error", "handleError"),
                    WriteHead(IF err.code = "TEMPLATE_NOT_FOUND" THEN 404 ELSE 500,
                              responseHeaders, "handleError"),
                    End(IF err.presentable.type = "string"
                        THEN err.presentable.value ELSE "<none>", "handleError") >>
            /\ UNCHANGED contentLengthStream
       ELSE /\ log' = log \o << Emit("error", "handleError") >> \o EndOfMeter
            /\ contentLengthStream' = [contentLengthStream EXCEPT !.ended = TRUE]
            /\ UNCHANGED shouldWriteHead
    /\ UNCHANGED << responseHeaders, primary, listeners, response >>

\* handlePrimaryFragment without the early return of line 125-127.
handlePrimaryFragmentUnguarded(f) ==
    /\ shouldWriteHead' = FALSE
    /\ primary' = f
    /\ listeners' = {"response", "fallback", "error"}
    /\ UNCHANGED << responseHeaders, contentLengthStream, response, log >>

\* line 124-168: the latch is cleared and the three once-listeners are
\* registered on the fragment.
handlePrimaryFragment(f) ==
    /\ IF ~shouldWriteHead
       THEN UNCHANGED << shouldWriteHead, primary, listeners >>
       ELSE /\ shouldWriteHead' = FALSE
            /\ primary' = f
            /\ listeners' = {"response", "fallback", "error"}
    /\ UNCHANGED << responseHeaders, contentLengthStream, response, log >>

\* onFragmentFound with the call of line 198 passing over line 129: the
\* listeners are registered and the latch stays set.
onFragmentFoundKeepsLatch(f, attributes) ==
    IF attributes.primary /\ shouldWriteHead
    THEN /\ primary' = f
         /\ listeners' = {"response", "fallback", "error"}
         /\ UNCHANGED << shouldWriteHead, responseHeaders, contentLengthStream,
                         response, log >>
    ELSE UNCHANGED << shouldWriteHead, responseHeaders, primary, listeners,
                      contentLengthStream, response, log >>

\* line 184-199, the listener of 'fragment:found'.
onFragmentFound(f, attributes) ==
    IF attributes.primary
    THEN handlePrimaryFragment(f)
    ELSE UNCHANGED << shouldWriteHead, responseHeaders, primary, listeners,
                      contentLengthStream, response, log >>

\* line 131-155, the primary fragment's 'response' listener.
onPrimaryResponse(statusCode, headers, filtered) ==
    LET mapped ==
            IF options.filterResponseHeaders
            THEN responseHeaders \cup filtered ELSE responseHeaders
        located ==
            IF headers.location THEN mapped \cup {"location"} ELSE mapped
        preloadAssets ==
            IF headers.link # "none" THEN getAssetsToPreload(headers) ELSE ""
        linked ==
            IF preloadAssets # "" THEN located \cup {"link"} ELSE located
    IN  /\ responseHeaders' = linked
        /\ log' = log \o
             << EmitResponse(statusCode, linked, "response"),
                WriteHead(statusCode, linked, "response") >>
             \o PipeThroughMeter("response")
        /\ contentLengthStream' = [contentLengthStream EXCEPT !.piped = TRUE]
        /\ UNCHANGED << shouldWriteHead, primary, response >>

\* line 157-161, the primary fragment's 'fallback' listener.
onPrimaryFallback ==
    /\ log' = log \o
         << Emit("error", "fallback"),
            WriteHead(500, responseHeaders, "fallback") >>
         \o PipeThroughMeter("fallback")
    /\ contentLengthStream' = [contentLengthStream EXCEPT !.piped = TRUE]
    /\ UNCHANGED << shouldWriteHead, responseHeaders, primary, response >>

\* line 163-167, the primary fragment's 'error' listener.
onPrimaryError ==
    /\ log' = log \o
         << Emit("error", "error"),
            WriteHead(500, responseHeaders, "error"),
            End("<none>", "error") >>
    /\ UNCHANGED << shouldWriteHead, responseHeaders, primary,
                    contentLengthStream, response >>

\* onFinish with line 202 reading 200 whatever response.statusCode is.
onFinishAlways200 ==
    /\ IF shouldWriteHead
       THEN /\ shouldWriteHead' = FALSE
            /\ log' = log \o
                 << EmitResponse(200, responseHeaders, "finish"),
                    WriteHead(200, responseHeaders, "finish") >>
                 \o PipeThroughMeter("finish")
            /\ contentLengthStream' = [contentLengthStream EXCEPT !.piped = TRUE]
       ELSE UNCHANGED << shouldWriteHead, log, contentLengthStream >>
    /\ UNCHANGED << responseHeaders, primary, listeners, response >>

\* onFinish without the test of line 204: it emits 'response' and writes
\* the head whatever the latch says.
onFinishUnlatched ==
    LET statusCode ==
            IF response.statusCode # 0 THEN response.statusCode ELSE 200
    IN  /\ shouldWriteHead' = FALSE
        /\ log' = log \o
             << EmitResponse(statusCode, responseHeaders, "finish"),
                WriteHead(statusCode, responseHeaders, "finish") >>
             \o PipeThroughMeter("finish")
        /\ contentLengthStream' = [contentLengthStream EXCEPT !.piped = TRUE]
        /\ UNCHANGED << responseHeaders, primary, listeners, response >>

\* line 201-209, the once-listener of the processor's 'finish'.
onFinish ==
    LET statusCode ==
            IF response.statusCode # 0 THEN response.statusCode ELSE 200
    IN  /\ IF shouldWriteHead
           THEN /\ shouldWriteHead' = FALSE
                /\ log' = log \o
                     << EmitResponse(statusCode, responseHeaders, "finish"),
                        WriteHead(statusCode, responseHeaders, "finish") >>
                     \o PipeThroughMeter("finish")
                /\ contentLengthStream' = [contentLengthStream EXCEPT !.piped = TRUE]
           ELSE UNCHANGED << shouldWriteHead, log, contentLengthStream >>
        /\ UNCHANGED << responseHeaders, primary, listeners, response >>

(***************************************************************************)
(* The collaborators' contracts                                            *)
(***************************************************************************)
handlerVars ==
    << shouldWriteHead, responseHeaders, primary, listeners,
       contentLengthStream, response, log >>

promiseVars ==
    << options, fetchContext, contextPromise, templatePromise, promiseAll >>

processorVars == << resultStream, fragments, upstream >>

parsedTemplate == templatePromise.value

\* The primary once-listener for the event e of fragment f runs when it is
\* registered on f and has not run yet.
Listening(f, e) == f = primary /\ e \in listeners

(***************************************************************************)
(* Actions                                                                 *)
(***************************************************************************)
\* line 85: fetchContext(request) resolves.
ContextResolve ==
    /\ fetchContext = "pending"
    /\ fetchContext' = "resolved"
    /\ contextPromise' = [state |-> "fulfilled", value |-> "context"]
    /\ UNCHANGED << options, templatePromise, promiseAll, processorVars,
                    handlerVars >>
    /\ UNCHANGED otherVars

\* ContextReject without the catch of line 85-88: the rejection is passed on.
ContextRejectUncaught ==
    /\ fetchContext = "pending"
    /\ fetchContext' = "rejected"
    /\ contextPromise' = [state |-> "rejected", value |-> "none"]
    /\ UNCHANGED << options, templatePromise, promiseAll, processorVars,
                    handlerVars >>
    /\ UNCHANGED otherVars

\* line 85-88: fetchContext(request) rejects; the catch emits
\* 'context:error' and fulfils contextPromise with {}.
ContextReject ==
    /\ fetchContext = "pending"
    /\ fetchContext' = "rejected"
    /\ contextPromise' = [state |-> "fulfilled", value |-> "{}"]
    /\ log' = Append(log, Emit("context:error", "contextPromise"))
    /\ UNCHANGED << options, templatePromise, promiseAll, processorVars,
                    shouldWriteHead, responseHeaders, primary, listeners,
                    contentLengthStream, response >>
    /\ UNCHANGED otherVars

\* line 89: fetchTemplate(request, parseTemplate) resolves with the tokens.
TemplateResolve ==
    /\ templatePromise.state = "pending"
    /\ \E t \in Templates :
           templatePromise' =
               [templatePromise EXCEPT !.state = "resolved", !.value = t]
    /\ UNCHANGED << options, fetchContext, contextPromise, promiseAll,
                    processorVars, handlerVars >>
    /\ UNCHANGED otherVars

\* line 89: fetchTemplate rejects.
TemplateReject ==
    /\ templatePromise.state = "pending"
    /\ \E err \in Errors :
           templatePromise' =
               [templatePromise EXCEPT !.state = "rejected", !.err = err]
    /\ UNCHANGED << options, fetchContext, contextPromise, promiseAll,
                    processorVars, handlerVars >>
    /\ UNCHANGED otherVars

\* line 170-217: both promises are fulfilled; the processor is created, the
\* listeners of line 184-211 are registered and every token is written.
PromiseAllThen ==
    /\ promiseAll = "pending"
    /\ templatePromise.state = "resolved"
    /\ contextPromise.state = "fulfilled"
    /\ promiseAll' = "then"
    /\ resultStream' = [resultStream EXCEPT !.created = TRUE]
    /\ fragments' = [f \in 1..Len(parsedTemplate) |-> "none"]
    /\ upstream' = [f \in 1..Len(parsedTemplate) |-> 0]
    /\ UNCHANGED << options, fetchContext, contextPromise, templatePromise,
                    handlerVars >>
    /\ UNCHANGED otherVars

\* line 218-220: Promise.all rejects as soon as the template promise does.
PromiseAllCatch ==
    /\ promiseAll = "pending"
    /\ templatePromise.state = "rejected"
    /\ promiseAll' = "catch"
    /\ handleError(templatePromise.err)
    /\ UNCHANGED << options, fetchContext, contextPromise, templatePromise,
                    processorVars >>
    /\ UNCHANGED otherVars

\* The processor reaches the next fragment token, creates the fragment,
\* emits 'fragment:found' and dispatches the fragment's request.
FragmentFound ==
    /\ resultStream.created
    /\ ~resultStream.errored
    /\ resultStream.found < Len(parsedTemplate)
    /\ LET f == resultStream.found + 1
       IN  /\ resultStream' = [resultStream EXCEPT !.found = f]
           /\ fragments' = [fragments EXCEPT ![f] = "requesting"]
           /\ onFragmentFound(f, parsedTemplate[f])
    /\ UNCHANGED << promiseVars, upstream >>
    /\ UNCHANGED otherVars

\* The processor has consumed every token: 'finish'.
ProcessorFinish ==
    /\ resultStream.created
    /\ ~resultStream.errored
    /\ ~resultStream.finished
    /\ resultStream.found = Len(parsedTemplate)
    /\ resultStream' = [resultStream EXCEPT !.finished = TRUE]
    /\ onFinish
    /\ UNCHANGED << promiseVars, fragments, upstream >>
    /\ UNCHANGED otherVars

\* The processor raises 'error' and aborts (line 211: handleError).
ProcessorError ==
    /\ resultStream.created
    /\ ~resultStream.errored
    /\ ~resultStream.ended
    /\ \E err \in ProcessorErrors :
           /\ resultStream' = [resultStream EXCEPT !.errored = TRUE, !.err = err]
           /\ handleError(err)
    /\ UNCHANGED << promiseVars, fragments, upstream >>
    /\ UNCHANGED otherVars

\* A fragment receives upstream status and headers, from its url or, when
\* retrying, from its fallback-url: 'response'.
FragmentResponse(f) ==
    /\ fragments[f] \in {"requesting", "retrying"}
    /\ fragments' = [fragments EXCEPT ![f] = "streaming"]
    /\ IF parsedTemplate[f].primary
       THEN \E statusCode \in UpstreamStatus :
                /\ upstream' = [upstream EXCEPT ![f] = statusCode]
                /\ IF Listening(f, "response")
                   THEN /\ listeners' = listeners \ {"response"}
                        /\ \E headers \in UpstreamHeaders,
                              filtered \in FilteredHeaders :
                               /\ onPrimaryResponse(statusCode, headers, filtered)
                   ELSE UNCHANGED handlerVars
       ELSE UNCHANGED << upstream, handlerVars >>
    /\ UNCHANGED << promiseVars, resultStream >>
    /\ UNCHANGED otherVars

\* A fragment's request to its url fails (timeout, connection error, bad
\* status) and it has a fallback-url: 'fallback', then reset and retry.
FragmentFallback(f) ==
    /\ fragments[f] = "requesting"
    /\ parsedTemplate[f].fallbackUrl
    /\ fragments' = [fragments EXCEPT ![f] = "retrying"]
    /\ IF Listening(f, "fallback")
       THEN /\ listeners' = listeners \ {"fallback"}
            /\ onPrimaryFallback
       ELSE UNCHANGED handlerVars
    /\ UNCHANGED << promiseVars, resultStream, upstream >>
    /\ UNCHANGED otherVars

\* A fragment's request to its url fails and it has no fallback-url:
\* 'error', and its stream closes.
FragmentError(f) ==
    /\ fragments[f] = "requesting"
    /\ ~parsedTemplate[f].fallbackUrl
    /\ fragments' = [fragments EXCEPT ![f] = "closed"]
    /\ IF Listening(f, "error")
       THEN /\ listeners' = listeners \ {"error"}
            /\ onPrimaryError
       ELSE UNCHANGED handlerVars
    /\ UNCHANGED << promiseVars, resultStream, upstream >>
    /\ UNCHANGED otherVars

\* The retry against the fallback-url fails too: the stream closes, and no
\* second terminal event is emitted.
FragmentRetryFail(f) ==
    /\ fragments[f] = "retrying"
    /\ fragments' = [fragments EXCEPT ![f] = "closed"]
    /\ UNCHANGED << promiseVars, resultStream, upstream, handlerVars >>
    /\ UNCHANGED otherVars

\* A fragment's body has been read to its end and its stream closes.
FragmentEnd(f) ==
    /\ fragments[f] = "streaming"
    /\ fragments' = [fragments EXCEPT ![f] = "closed"]
    /\ UNCHANGED << promiseVars, resultStream, upstream, handlerVars >>
    /\ UNCHANGED otherVars

\* The processor's output ends once every fragment's stream has closed; the
\* pipe of line 154/160/207 then ends the meter.
ResultStreamEnd ==
    /\ resultStream.finished
    /\ ~resultStream.errored
    /\ ~resultStream.ended
    /\ contentLengthStream.piped
    /\ \A f \in DOMAIN fragments : fragments[f] = "closed"
    /\ resultStream' = [resultStream EXCEPT !.ended = TRUE]
    /\ log' = log \o EndOfMeter
    /\ contentLengthStream' = [contentLengthStream EXCEPT !.ended = TRUE]
    /\ UNCHANGED << promiseVars, fragments, upstream, shouldWriteHead,
                    responseHeaders, primary, listeners, response >>
    /\ UNCHANGED otherVars

Next ==
    \/ ContextResolve
    \/ ContextReject
    \/ TemplateResolve
    \/ TemplateReject
    \/ PromiseAllThen
    \/ PromiseAllCatch
    \/ FragmentFound
    \/ ProcessorFinish
    \/ ProcessorError
    \/ \E f \in DOMAIN fragments : FragmentResponse(f)
    \/ \E f \in DOMAIN fragments : FragmentFallback(f)
    \/ \E f \in DOMAIN fragments : FragmentError(f)
    \/ \E f \in DOMAIN fragments : FragmentRetryFail(f)
    \/ \E f \in DOMAIN fragments : FragmentEnd(f)
    \/ ResultStreamEnd

(***************************************************************************)
(* The index generator of a request (line 53-61, 173-176)                  *)
(***************************************************************************)
\* Requests in flight at the same time.
NumRequests == 2

\* Largest options.maxAssetLinks.
MaxAssetLinks == 3

\* Largest number of calls of one request's nextIndex.
MaxCalls == 4

RequestIds == 1..NumRequests

\* No generator yet: extendedOptions is built in the then-callback.
NoGenerator == [created |-> FALSE, index |-> 0, step |-> 0]

\* nextIndexGenerator(initialIndex, step): the closure over index and step.
nextIndexGenerator(initialIndex, step) ==
    [created |-> TRUE, index |-> initialIndex, step |-> step]

\* The closure returning the index after the increment.
nextIndexCallPreIncrement(g) ==
    [returns |-> g.index + g.step, closure |-> [g EXCEPT !.index = @ + g.step]]

\* One call of the closure (line 56-60): pastIndex = index; index += step;
\* return pastIndex.
nextIndexCall(g) ==
    [returns |-> g.index, closure |-> [g EXCEPT !.index = @ + g.step]]

IndexIdle ==
    /\ maxAssetLinks = 1
    /\ nextIndex = [r \in RequestIds |-> NoGenerator]
    /\ indices = [r \in RequestIds |-> << >>]

(***************************************************************************)
(* The re-emission of fragment events (line 5-13, 184-196)                 *)
(***************************************************************************)
\* Largest number of fragments the processor announces.
MaxRelayFragments == 2

\* line 5-13
FRAGMENT_EVENTS ==
    {"start", "response", "end", "error", "timeout", "fallback", "warn"}

NoEmissions == [e \in FRAGMENT_EVENTS |-> 0]

\* The phase a fragment is in after emitting e, "" when it cannot emit e
\* (spec.md 4.3 and 5): 'start' on dispatch; 'response' from the url or,
\* retrying, from the fallback-url; 'timeout' when an attempt is slower than
\* the timeout, then 'fallback' (reset and retry) with a fallback-url not
\* yet tried and 'error' without one; a failed retry ends the fragment with
\* no further terminal event; 'warn' on a tolerated non-2xx response; 'end'
\* when the body is consumed.
After(fr, e) ==
    CASE e = "start" /\ fr.phase = "found" -> "requesting"
      [] e = "response" /\ fr.phase \in {"requesting", "retrying"} -> "streaming"
      [] e = "timeout" /\ fr.phase = "requesting" -> "timedout"
      [] e = "timeout" /\ fr.phase = "retrying" -> "closed"
      [] e = "fallback" /\ fr.phase \in {"requesting", "timedout"}
                        /\ fr.fallbackUrl -> "retrying"
      [] e = "error" /\ fr.phase \in {"requesting", "timedout"}
                     /\ ~fr.fallbackUrl -> "closed"
      [] e = "warn" /\ fr.phase = "streaming" -> "warned"
      [] e = "end" /\ fr.phase \in {"streaming", "warned"} -> "closed"
      [] OTHER -> ""

RelayIdle ==
    /\ lifecycle = << >>
    /\ onceListeners = << >>
    /\ emitted = << >>
    /\ reemitted = << >>

\* line 184-196: the processor announces its next fragment and the listener
\* of 'fragment:found' registers a once-listener for each lifecycle event.
RelayFragmentFound ==
    /\ Len(lifecycle) < MaxRelayFragments
    /\ \E fallbackUrl \in BOOLEAN :
           lifecycle' = Append(lifecycle,
                               [phase |-> "found", fallbackUrl |-> fallbackUrl])
    /\ onceListeners' = Append(onceListeners, FRAGMENT_EVENTS)
    /\ emitted' = Append(emitted, NoEmissions)
    /\ reemitted' = Append(reemitted, NoEmissions)
    /\ UNCHANGED besidesRelay

\* Fragment f emits e.  The once-listener of line 187-195, if still armed,
\* is removed and emits 'fragment:' + e on the handler.
FragmentEmits(f, e) ==
    /\ After(lifecycle[f], e) # ""
    /\ lifecycle' = [lifecycle EXCEPT ![f].phase = After(lifecycle[f], e)]
    /\ emitted' = [emitted EXCEPT ![f][e] = @ + 1]
    /\ IF e \in onceListeners[f]
       THEN /\ onceListeners' = [onceListeners EXCEPT ![f] = @ \ {e}]
            /\ reemitted' = [reemitted EXCEPT ![f][e] = @ + 1]
       ELSE UNCHANGED << onceListeners, reemitted >>
    /\ UNCHANGED besidesRelay

NextRelay ==
    \/ RelayFragmentFound
    \/ \E f \in DOMAIN lifecycle : FragmentEmits(f, "start")
    \/ \E f \in DOMAIN lifecycle : FragmentEmits(f, "response")
    \/ \E f \in DOMAIN lifecycle : FragmentEmits(f, "end")
    \/ \E f \in DOMAIN lifecycle : FragmentEmits(f, "error")
    \/ \E f \in DOMAIN lifecycle : FragmentEmits(f, "timeout")
    \/ \E f \in DOMAIN lifecycle : FragmentEmits(f, "fallback")
    \/ \E f \in DOMAIN lifecycle : FragmentEmits(f, "warn")

(***************************************************************************)
(* The preload hints of the primary fragment (line 18-51, 144-150)         *)
(***************************************************************************)
\* Largest number of refs in a link header.
MaxRefs == 2

\* Strings are sequences of characters.  The uris of the refs: absolute on
\* the hosts "a", "b" and "a.b", and relative to the page.
Uris ==
    { << "s", ":", "/", "/", "a", "/", "x" >>,
      << "s", ":", "/", "/", "b", "/", "x" >>,
      << "s", ":", "/", "/", "a", ".", "b", "/", "x" >>,
      << "/", "x" >> }

\* ref.rel
Rels == {"stylesheet", "fragment-script", "canonical"}

\* The refs LinkHeader.parse(link) returns.
Refs == UNION {[1..n -> [rel : Rels, uri : Uris]] : n \in 0..MaxRefs}

\* request.headers.host: undefined, "a" or "b".
Hosts == { << >>, << "a" >>, << "b" >> }

\* haystack.indexOf(needle) >= 0
Contains(haystack, needle) ==
    \E i \in 1..(Len(haystack) - Len(needle) + 1) :
        SubSeq(haystack, i, i + Len(needle) - 1) = needle

\* line 18-23
getCrossOriginHeader(fragmentUrl, host) ==
    IF Len(host) > 0 /\ ~Contains(fragmentUrl, << ":", "/", "/" >> \o host)
    THEN << "crossorigin" >>
    ELSE << >>

\* line 41: `<${uri}>; rel="preload"; as="style"; nopush`
StyleHint(uri) ==
    << "<" >> \o uri \o << ">; rel=\"preload\"; as=\"style\"; nopush" >>

\* line 45-47: `<${uri}>; rel="preload"; as="script"; nopush; ${crossOrigin}`
ScriptHint(uri, crossOrigin) ==
    << "<" >> \o uri \o << ">; rel=\"preload\"; as=\"script\"; nopush; " >>
    \o crossOrigin

\* array.join(',')
RECURSIVE Join(_)
Join(array) ==
    IF array = << >> THEN << >>
    ELSE IF Len(array) = 1 THEN array[1]
    ELSE array[1] \o << "," >> \o Join(Tail(array))

\* refs.filter(ref => ref.rel === rel).map(ref => ref.uri)
UrisOfRel(refs, rel) ==
    LET matching == SelectSeq(refs, LAMBDA ref : ref.rel = rel)
    IN  [i \in DOMAIN matching |-> matching[i].uri]

\* line 26-51, for the refs LinkHeader.parse(link) returned.
assetsToPreload(refs, host) ==
    LET scriptRefs == UrisOfRel(refs, "fragment-script")
        styleRefs == UrisOfRel(refs, "stylesheet")
        truthy(uris) == Len(uris) > 0 /\ uris[1] # << >>
    IN  IF ~truthy(scriptRefs) /\ ~truthy(styleRefs)
        THEN << >>
        ELSE Join([i \in DOMAIN styleRefs |-> StyleHint(styleRefs[i])]
                  \o [i \in DOMAIN scriptRefs |->
                         ScriptHint(scriptRefs[i],
                                    getCrossOriginHeader(scriptRefs[i], host))])

NoLink == [present |-> FALSE, refs |-> << >>]

LinkIdle ==
    /\ headersLink = NoLink
    /\ requestHost = << >>
    /\ responseLink = [responded |-> FALSE, set |-> FALSE, value |-> << >>]

\* line 144-150 of the primary fragment's 'response' listener.
ComposeLinkHeader ==
    /\ ~responseLink.responded
    /\ LET preloadAssets ==
               IF headersLink.present
               THEN assetsToPreload(headersLink.refs, requestHost)
               ELSE << >>
       IN  responseLink' =
               [responded |-> TRUE,
                set |-> preloadAssets # << >>,
                value |-> preloadAssets]
    /\ UNCHANGED << headersLink, requestHost, besidesLink >>

NextLink == ComposeLinkHeader

\* Line 173-176 in the then-callback of request r.
CreateGenerator(r) ==
    /\ ~nextIndex[r].created
    /\ nextIndex' = [nextIndex EXCEPT ![r] = nextIndexGenerator(0, maxAssetLinks)]
    /\ UNCHANGED << maxAssetLinks, indices, besidesIndex >>

\* The processor of request r asks for the index of its next fragment.
CallNextIndex(r) ==
    /\ nextIndex[r].created
    /\ Len(indices[r]) < MaxCalls
    /\ LET call == nextIndexCall(nextIndex[r])
       IN  /\ nextIndex' = [nextIndex EXCEPT ![r] = call.closure]
           /\ indices' = [indices EXCEPT ![r] = Append(@, call.returns)]
    /\ UNCHANGED << maxAssetLinks, besidesIndex >>

NextIndex ==
    \/ \E r \in RequestIds : CreateGenerator(r)
    \/ \E r \in RequestIds : CallNextIndex(r)

(***************************************************************************)
(* src/pipe.js: the fragments of a page in the browser                     *)
(***************************************************************************)
\* Largest number of fragments of a page.
MaxPipeFragments == 2

\* Largest number of nodes a fragment streams between its markers.
MaxContent == 2

\* Largest number of nodes of the template outside the fragments.
MaxRaw == 1

\* A node of the body.  tag is "placeholder", "start" or "end" for the
\* script elements that call Pipe.placeholder, Pipe.start and Pipe.end,
\* "element" or "text" for a node a fragment streamed, "raw" for an
\* element of the template; index is the fragment's index (0 for raw
\* nodes), n tells the nodes of one kind apart, dataPipe is the data-pipe
\* attribute.
Node(tag, index, n, dataPipe) ==
    [tag |-> tag, index |-> index, n |-> n, dataPipe |-> dataPipe]

\* undefined and null
Undefined == Node("undefined", 0, 0, FALSE)

\* The script element the parser has just appended.
Marker(tag, index) == Node(tag, index, 0, TRUE)

IsScript(node) == node.tag \in {"placeholder", "start", "end"}

\* node.nodeType === 1
IsElement(node) == node.tag \in {"placeholder", "start", "end", "element", "raw"}

\* line 18-27: the last script with the data-pipe attribute, and the
\* document with the attribute removed from it.
currentScript(doc) ==
    LET marked == {k \in DOMAIN doc : IsScript(doc[k]) /\ doc[k].dataPipe}
    IN  IF marked = {}
        THEN [script |-> Undefined, doc |-> doc]
        ELSE LET s == CHOOSE k \in marked : \A j \in marked : j <= k
             IN  [script |-> [doc[s] EXCEPT !.dataPipe = FALSE],
                  doc |-> [doc EXCEPT ![s].dataPipe = FALSE]]

Position(doc, node) == CHOOSE k \in DOMAIN doc : doc[k] = node

\* node.nextSibling
nextSibling(doc, node) ==
    IF Position(doc, node) = Len(doc)
    THEN Undefined
    ELSE doc[Position(doc, node) + 1]

\* node.parentNode.removeChild(node)
removeChild(doc, node) ==
    SubSeq(doc, 1, Position(doc, node) - 1)
    \o SubSeq(doc, Position(doc, node) + 1, Len(doc))

\* parent.insertBefore(node, ref): node leaves its place and stands before
\* ref.
insertBefore(doc, node, ref) ==
    LET without == removeChild(doc, node)
        p == Position(without, ref)
    IN  SubSeq(without, 1, p - 1) \o << node >> \o SubSeq(without, p, Len(without))

\* parent.insertBefore(node, ref.nextSibling)
insertAfter(doc, node, ref) ==
    LET without == removeChild(doc, node)
        p == Position(without, ref)
    IN  SubSeq(without, 1, p) \o << node >> \o SubSeq(without, p + 1, Len(without))

\* The loop of line 81-85 inserting each node after the placeholder.
RECURSIVE moveToPlaceholderReversing(_, _, _, _)
moveToPlaceholderReversing(doc, nextNode, endScript, placeholder) ==
    LET node == nextNode
        next == nextSibling(doc, nextNode)
        moved == insertAfter(doc, node, placeholder)
    IN  IF node = endScript
        THEN moved
        ELSE moveToPlaceholderReversing(moved, next, endScript, placeholder)

\* line 81-85: do { node = nextNode; nextNode = nextNode.nextSibling;
\* placeholder.parentNode.insertBefore(node, placeholder) } while (node !== end)
RECURSIVE moveToPlaceholder(_, _, _, _)
moveToPlaceholder(doc, nextNode, endScript, placeholder) ==
    LET node == nextNode
        next == nextSibling(doc, nextNode)
        moved == insertBefore(doc, node, placeholder)
    IN  IF node = endScript
        THEN moved
        ELSE moveToPlaceholder(moved, next, endScript, placeholder)

\* line 89-91: while (node && node.nodeType !== 1) node = node.nextSibling
RECURSIVE skipToElement(_, _)
skipToElement(doc, node) ==
    IF node # Undefined /\ ~IsElement(node)
    THEN skipToElement(doc, nextSibling(doc, node))
    ELSE node

\* line 74-97 of end(index, ...): the document afterwards and the node the
\* initialiser gets.
endOfFragment(doc, placeholder, startScript, endScript) ==
    LET moved ==
            IF placeholder # Undefined
            THEN removeChild(moveToPlaceholder(doc, startScript, endScript,
                                               placeholder),
                             placeholder)
            ELSE doc
        first == skipToElement(moved, nextSibling(moved, startScript))
    IN  [doc |-> removeChild(removeChild(moved, startScript), endScript),
         node |-> IF first = endScript THEN Undefined ELSE first]

\* placeholders[index], starts[index]
Lookup(table, index) ==
    IF index \in DOMAIN table THEN table[index] ELSE Undefined

\* table[index] = node
Store(table, index, node) ==
    [i \in DOMAIN table \cup {index} |-> IF i = index THEN node ELSE table[i]]

\* hooks[hook](attributes, index)
Call(calls, hook, index) == [calls EXCEPT ![index] = Append(@, hook)]

\* initState.pop()
pop(array) == IF array = << >> THEN << >> ELSE SubSeq(array, 1, Len(array) - 1)

\* fireDone calling hooks.onDone whatever doc.readyState is.
fireDoneWhileLoading(state) ==
    IF Len(state) = 0 THEN Append(onDoneCalls, readyState) ELSE onDoneCalls

\* line 43-51: the calls of hooks.onDone after fireDone(), initState being
\* state.
fireDone(state) ==
    IF Len(state) = 0 /\ readyState \in {"complete", "interactive"}
    THEN Append(onDoneCalls, readyState)
    ELSE onDoneCalls

\* line 60-64, handlerFn of fragment index.
handlerFn(index) ==
    /\ initState' = pop(initState)
    /\ hookCalls' = Call(hookCalls, "onAfterInit", index)
    /\ onDoneCalls' = fireDone(pop(initState))

\* What the module a fragment's script loads is, and what its initialiser
\* returns: not a function; a function returning a value that is not an
\* object (undefined, say); a function returning null; a function returning
\* a thenable.
Modules == {"notFunction", "plain", "null", "thenable"}

\* A fragment of the page before Pipe.start.
Streamed(async, script) ==
    [async |-> async, script |-> script, phase |-> "placeholder",
     content |-> 0, module |-> "", init |-> "none", node |-> Undefined]

PipeIdle ==
    /\ childNodes = << >>
    /\ readyState = "loading"
    /\ placeholders = << >>
    /\ starts = << >>
    /\ initState = << >>
    /\ streamed = << >>
    /\ hookCalls = << >>
    /\ onDoneCalls = << >>

\* The fragment whose nodes the parser is reading, if any.
Open == {f \in DOMAIN streamed : streamed[f].phase = "open"}

\* The parser reads an element of the template outside the fragments.
ParseRaw ==
    /\ readyState = "loading"
    /\ Open = {}
    /\ Cardinality({k \in DOMAIN childNodes : childNodes[k].tag = "raw"}) < MaxRaw
    /\ childNodes' = Append(childNodes, Node("raw", 0,
                      Cardinality({k \in DOMAIN childNodes : childNodes[k].tag = "raw"}) + 1,
                      FALSE))
    /\ UNCHANGED << readyState, placeholders, starts, initState, streamed,
                    hookCalls, onDoneCalls, besidesPipe >>

\* The parser reads the script of an async fragment's placeholder and runs
\* it: placeholder(index), line 29-31.
ParsePlaceholder ==
    /\ readyState = "loading"
    /\ Open = {}
    /\ Len(streamed) < MaxPipeFragments
    /\ LET index == Len(streamed) + 1
           current == currentScript(Append(childNodes, Marker("placeholder", index)))
       IN  /\ placeholders' = Store(placeholders, index, current.script)
           /\ childNodes' = current.doc
           /\ \E script \in BOOLEAN :
                  streamed' = Append(streamed, Streamed(TRUE, script))
    /\ hookCalls' = Append(hookCalls, << >>)
    /\ UNCHANGED << readyState, starts, initState, onDoneCalls, besidesPipe >>

\* line 33-40, start(index, script, attributes), run on the document doc,
\* calls being the hook calls so far.
start(index, script, doc, calls) ==
    LET current == currentScript(doc)
    IN  /\ starts' = Store(starts, index, current.script)
        /\ childNodes' = current.doc
        /\ IF script
           THEN /\ initState' = Append(initState, index)
                /\ hookCalls' = Call(calls, "onStart", index)
           ELSE /\ UNCHANGED initState
                /\ hookCalls' = calls

\* The parser reads the start script of an inline fragment and runs it.
ParseStartInline ==
    /\ readyState = "loading"
    /\ Open = {}
    /\ Len(streamed) < MaxPipeFragments
    /\ \E script \in BOOLEAN :
           /\ streamed' = Append(streamed,
                  [Streamed(FALSE, script) EXCEPT
                       !.phase = "open",
                       !.init = IF script THEN "requested" ELSE "none"])
           /\ start(Len(streamed) + 1, script,
                    Append(childNodes, Marker("start", Len(streamed) + 1)),
                    Append(hookCalls, << >>))
    /\ UNCHANGED << readyState, placeholders, onDoneCalls, besidesPipe >>

\* The parser reads the start script of the async fragment f, which stands
\* after the template, and runs it.
ParseStartAsync(f) ==
    /\ readyState = "loading"
    /\ Open = {}
    /\ streamed[f].phase = "placeholder"
    /\ streamed' = [streamed EXCEPT
                        ![f].phase = "open",
                        ![f].init = IF streamed[f].script THEN "requested" ELSE "none"]
    /\ start(f, streamed[f].script, Append(childNodes, Marker("start", f)),
             hookCalls)
    /\ UNCHANGED << readyState, placeholders, onDoneCalls, besidesPipe >>

\* The parser reads a node of the open fragment f: text first, then an
\* element, and so on in turn.
ParseContent(f) ==
    /\ streamed[f].phase = "open"
    /\ streamed[f].content < MaxContent
    /\ childNodes' =
           Append(childNodes,
                  Node(IF streamed[f].content % 2 = 0 THEN "text" ELSE "element",
                       f, streamed[f].content + 1, FALSE))
    /\ streamed' = [streamed EXCEPT ![f].content = @ + 1]
    /\ UNCHANGED << readyState, placeholders, starts, initState, hookCalls,
                    onDoneCalls, besidesPipe >>

\* The parser reads the end script of the open fragment f and runs it:
\* end(index, script, attributes), line 73-113.  With a script the callback
\* of line 99-112 waits for the module.
ParseEnd(f) ==
    /\ streamed[f].phase = "open"
    /\ LET current == currentScript(Append(childNodes, Marker("end", f)))
           result == endOfFragment(current.doc, Lookup(placeholders, f),
                                   Lookup(starts, f), current.script)
       IN  /\ childNodes' = result.doc
           /\ streamed' = [streamed EXCEPT
                               ![f].phase = "ended",
                               ![f].node = result.node,
                               ![f].init = IF streamed[f].script
                                           THEN "loading" ELSE "none"]
    /\ UNCHANGED << readyState, placeholders, starts, initState, hookCalls,
                    onDoneCalls, besidesPipe >>

\* line 99-112: the module of fragment f is loaded and the callback runs.
\* It is not a function (line 103-109); or doInit (line 57-71) calls the
\* initialiser, which returns a value that is no object, so that handlerFn
\* runs at once; or null, for which isPromise throws at obj.then (typeof
\* null is 'object'), so that doInit ends before line 66; or a thenable.
ModuleLoaded(f) ==
    /\ streamed[f].init = "loading"
    /\ \E module \in Modules :
           /\ streamed' = [streamed EXCEPT
                  ![f].module = module,
                  ![f].init = CASE module = "null" -> "threw"
                                [] module = "thenable" -> "pending"
                                [] OTHER -> "done"]
           /\ CASE module = "notFunction" ->
                     /\ initState' = pop(initState)
                     /\ hookCalls' =
                            Call(Call(hookCalls, "onBeforeInit", f),
                                 "onAfterInit", f)
                     /\ onDoneCalls' = fireDone(pop(initState))
                [] module = "plain" ->
                     /\ initState' = pop(initState)
                     /\ hookCalls' =
                            Call(Call(hookCalls, "onBeforeInit", f),
                                 "onAfterInit", f)
                     /\ onDoneCalls' = fireDone(pop(initState))
                [] OTHER ->
                     /\ hookCalls' = Call(hookCalls, "onBeforeInit", f)
                     /\ UNCHANGED << initState, onDoneCalls >>
    /\ UNCHANGED << childNodes, readyState, placeholders, starts, besidesPipe >>

\* line 67: the thenable of fragment f is fulfilled or rejected and
\* handlerFn runs, as the reaction of then or as the reaction of catch.
InitSettles(f) ==
    /\ streamed[f].init = "pending"
    /\ \E outcome \in {"fulfilled", "rejected"} :
           streamed' = [streamed EXCEPT ![f].init = outcome]
    /\ handlerFn(f)
    /\ UNCHANGED << childNodes, readyState, placeholders, starts, besidesPipe >>

\* The parser has read the whole document: every fragment was streamed.
DocumentParsed ==
    /\ readyState = "loading"
    /\ \A f \in DOMAIN streamed : streamed[f].phase = "ended"
    /\ readyState' = "interactive"
    /\ UNCHANGED << childNodes, placeholders, starts, initState, streamed,
                    hookCalls, onDoneCalls, besidesPipe >>

\* The document and its resources are loaded.
DocumentLoaded ==
    /\ readyState = "interactive"
    /\ readyState' = "complete"
    /\ UNCHANGED << childNodes, placeholders, starts, initState, streamed,
                    hookCalls, onDoneCalls, besidesPipe >>

\* The parser alone, reading pages of fragments and template elements:
\* what end() does to the document does not depend on the modules.
NextDom ==
    \/ ParseRaw
    \/ ParsePlaceholder
    \/ ParseStartInline
    \/ \E f \in DOMAIN streamed : ParseStartAsync(f)
    \/ \E f \in DOMAIN streamed : ParseContent(f)
    \/ \E f \in DOMAIN streamed : ParseEnd(f)

\* The initialisation of the fragments of a page, for pages that consist of
\* the fragments' scripts only: initState and the hooks do not depend on
\* the other nodes of the document.
NextPipe ==
    \/ ParsePlaceholder
    \/ ParseStartInline
    \/ \E f \in DOMAIN streamed : ParseStartAsync(f)
    \/ \E f \in DOMAIN streamed : ParseEnd(f)
    \/ \E f \in DOMAIN streamed : ModuleLoaded(f)
    \/ \E f \in DOMAIN streamed : InitSettles(f)
    \/ DocumentParsed
    \/ DocumentLoaded

(***************************************************************************)
(* Specifications: one component runs, the others stay as they start      *)
(***************************************************************************)
\* The state the handler's variables keep while another component runs.
HandlerIdle == Init /\ ~options.filterResponseHeaders

\* The request handler alone: the other components stay as they start.
InitHandler == Init /\ IndexIdle /\ RelayIdle /\ LinkIdle /\ PipeIdle

Spec == InitHandler /\ [][Next]_allVars

InitIndex ==
    /\ HandlerIdle
    /\ RelayIdle
    /\ LinkIdle
    /\ PipeIdle
    /\ maxAssetLinks \in 0..MaxAssetLinks
    /\ nextIndex = [r \in RequestIds |-> NoGenerator]
    /\ indices = [r \in RequestIds |-> << >>]

SpecIndex == InitIndex /\ [][NextIndex]_allVars

InitRelay == HandlerIdle /\ IndexIdle /\ RelayIdle /\ LinkIdle /\ PipeIdle

SpecRelay == InitRelay /\ [][NextRelay]_allVars

\* The primary fragment's response is about to arrive: headers.link is
\* absent or parses into some refs, and the request has some host.
InitLink ==
    /\ HandlerIdle
    /\ IndexIdle
    /\ RelayIdle
    /\ PipeIdle
    /\ headersLink \in {NoLink} \cup [present : {TRUE}, refs : Refs]
    /\ requestHost \in Hosts
    /\ responseLink = [responded |-> FALSE, set |-> FALSE, value |-> << >>]

SpecLink == InitLink /\ [][NextLink]_allVars

\* pipe.js has been evaluated (line 1-16) and the parser is at the start of
\* the body.
InitPipe == HandlerIdle /\ IndexIdle /\ RelayIdle /\ LinkIdle /\ PipeIdle

SpecPipe == InitPipe /\ [][NextPipe]_allVars

SpecDom == InitPipe /\ [][NextDom]_allVars

(***************************************************************************)
(* Reading the log                                                         *)
(***************************************************************************)
IsHead(e) == e.op = "writeHead"
IsPipe(e) == e.op = "pipe"
IsEnd(e) == e.op = "end"
IsEmit(e, name) == e.op = "emit" /\ e.arg = name

\* The response.writeHead calls, in order.
Heads == SelectSeq(log, IsHead)

\* How often the handler emitted the event name.
Emitted(name) == Cardinality({i \in DOMAIN log : IsEmit(log[i], name)})

Pipes == Cardinality({i \in DOMAIN log : IsPipe(log[i])})
Ends == Cardinality({i \in DOMAIN log : IsEnd(log[i])})

\* The positions of the log written by the handler named by.
By(by) == {i \in DOMAIN log : log[i].by = by}

\* The request is over: no promise, stream or fragment has a step left.
RequestOver == ~ENABLED Next

\* The first fragment of the template with the primary attribute, 0 if none.
FirstPrimary ==
    LET P == {f \in DOMAIN parsedTemplate : parsedTemplate[f].primary}
    IN  IF P = {} THEN 0 ELSE CHOOSE f \in P : \A g \in P : f <= g

(***************************************************************************)
(* Properties of the request handler                                       *)
(***************************************************************************)
\* C1: in every request response.writeHead is called exactly once, whatever
\* the order of the promise, processor and primary fragment events: never
\* twice, and never zero times once the request is over.
HeadWrittenExactlyOnce ==
    /\ Len(Heads) <= 1
    /\ RequestOver => Len(Heads) = 1

\* C2: the processor output is piped through the meter into the response,
\* and response.end is called, only after response.writeHead, and the
\* output is piped at most once per request.
BodyAfterHeadAndPipedOnce ==
    /\ \A i \in DOMAIN log :
           (IsPipe(log[i]) \/ IsEnd(log[i]))
               => \E j \in 1..(i - 1) : IsHead(log[j])
    /\ Pipes <= 1

\* The error handleError was called with: the template promise's, in the
\* catch of line 218, or the processor's (line 211).
HandledError ==
    IF promiseAll = "catch" THEN templatePromise.err ELSE resultStream.err

ErrorStatus(err) == IF err.code = "TEMPLATE_NOT_FOUND" THEN 404 ELSE 500

FinishStatus == IF response.statusCode # 0 THEN response.statusCode ELSE 200

ErrorBeforeHeadWritesErrorHead ==
    \A i \in DOMAIN log :
        (/\ IsEmit(log[i], "error")
         /\ log[i].by = "handleError"
         /\ \A j \in 1..(i - 1) : ~IsHead(log[j]))
            => /\ i + 2 <= Len(log)
               /\ IsHead(log[i + 1])
               /\ log[i + 1].status = ErrorStatus(HandledError)
               /\ IsEnd(log[i + 2])

\* C5: the handler emits 'end' exactly once per request, however the
\* request ended: never twice, and once by the time the request is over.
EndEmittedExactlyOnce ==
    /\ Emitted("end") <= 1
    /\ RequestOver => Emitted("end") = 1

\* The log without the 'context:error' event, which may fall anywhere.
OwnLog == SelectSeq(log, LAMBDA e : ~IsEmit(e, "context:error"))

\* C6: when fetchTemplate rejects, no processor is created and no token is
\* processed; the handler emits 'error' once, writes 404 for
\* TEMPLATE_NOT_FOUND and 500 otherwise with the baseline headers, and ends
\* the response with err.presentable when it is a string and without a body
\* otherwise, whenever the context promise settles.
TemplateRejectionHandled ==
    /\ templatePromise.state = "rejected"
           => ~resultStream.created /\ fragments = << >>
    /\ promiseAll = "catch"
           => OwnLog =
                  << Emit("start", "processRequest"),
                     Emit("error", "handleError"),
                     WriteHead(ErrorStatus(templatePromise.err),
                               BaselineHeaders, "handleError"),
                     End(IF templatePromise.err.presentable.type = "string"
                         THEN templatePromise.err.presentable.value
                         ELSE "<none>", "handleError") >>

\* C6 happens: TEMPLATE_NOT_FOUND with a presentable string was handled and
\* the context failed afterwards.
TemplateNotFoundHandled ==
    /\ promiseAll = "catch"
    /\ templatePromise.err.code = "TEMPLATE_NOT_FOUND"
    /\ templatePromise.err.presentable.type = "string"
    /\ IsEmit(log[Len(log)], "context:error")
    /\ Heads[1].status = 404

\* C7: a failing fetchContext makes the handler emit 'context:error' once
\* and go on with an empty context; the processor is created only after the
\* template promise resolved and the context promise settled; without a
\* template, processor or primary failure there is no 'error' event and
\* no head from an error path; and with a failed context and no primary the
\* head at 'finish' is the one a successful context gives.
ContextFailureIsNotFatal ==
    /\ Emitted("context:error") = (IF fetchContext = "rejected" THEN 1 ELSE 0)
    /\ fetchContext = "rejected"
           => contextPromise = [state |-> "fulfilled", value |-> "{}"]
    /\ resultStream.created
           => /\ templatePromise.state = "resolved"
              /\ contextPromise.state = "fulfilled"
    /\ (/\ templatePromise.state # "rejected"
        /\ ~resultStream.errored
        /\ primary = 0 \/ {"fallback", "error"} \subseteq listeners)
           => /\ Emitted("error") = 0
              /\ \A i \in DOMAIN Heads : Heads[i].by \in {"response", "finish"}
    /\ (fetchContext = "rejected" /\ resultStream.finished /\ FirstPrimary = 0)
           => Heads = << WriteHead(FinishStatus, BaselineHeaders, "finish") >>

\* C7 happens: the context failed, a template with a fragment was processed
\* and the head is 200 without any 'error' event.
ContextFailedHeadWritten ==
    /\ fetchContext = "rejected"
    /\ resultStream.finished
    /\ Len(parsedTemplate) > 0
    /\ FirstPrimary = 0
    /\ Emitted("error") = 0
    /\ Len(Heads) = 1
    /\ Heads[1].status = 200

FallbackHeadStays500 ==
    By("fallback") # {}
        => /\ \E i \in DOMAIN log :
                  /\ log[i] = Emit("error", "fallback")
                  /\ log[i + 1] = WriteHead(500, BaselineHeaders, "fallback")
                  /\ log[i + 2] = Pipe("fallback")
           /\ \A i \in DOMAIN Heads : Heads[i].status = 500

\* C10: with several primary fragments in a template the first in template
\* order wins: only its listeners are registered and write to the response,
\* and no event of a later primary changes the latch, the headers, the
\* listeners, the meter or the log, even when it responds first.
FirstPrimaryWins ==
    /\ [](/\ primary \in {0, FirstPrimary}
          /\ \A i \in DOMAIN log :
                 log[i].by \in {"response", "fallback", "error"}
                     => primary = FirstPrimary /\ primary # 0)
    /\ [][\A f \in DOMAIN fragments :
              (/\ parsedTemplate[f].primary
               /\ f # FirstPrimary
               /\ f \in DOMAIN fragments'
               /\ fragments'[f] # fragments[f])
                  => UNCHANGED handlerVars]_vars

\* C10 happens: a later primary has responded while the first primary is
\* still waiting, and nothing was written.
LaterPrimaryRespondedFirst ==
    \E f \in DOMAIN fragments :
        /\ parsedTemplate[f].primary
        /\ f # FirstPrimary
        /\ upstream[f] # 0
        /\ fragments[FirstPrimary] = "requesting"
        /\ Heads = << >>
        /\ Pipes = 0

LaterPrimaries ==
    {f \in DOMAIN fragments : parsedTemplate[f].primary /\ f # FirstPrimary}

\* C16 as stated: when a later primary emits 'response' before the first
\* primary has emitted anything, the later primary's status is written as
\* the head.
FirstPrimaryToRespondWins ==
    \A f \in LaterPrimaries :
        (upstream[f] # 0 /\ fragments[FirstPrimary] = "requesting")
            => (Len(Heads) >= 1 /\ Heads[1].status = upstream[f])

\* C16: with several primary fragments the first in template order wins:
\* the listeners of a later primary are never registered, so when it emits
\* 'response' before the first primary nothing is written for it, and a head
\* written on 'response' carries the first primary's status.
FirstPrimaryInTemplateOrderWins ==
    \A f \in LaterPrimaries :
        /\ primary # f
        /\ upstream[f] # 0 =>
               \A i \in DOMAIN Heads :
                   Heads[i].by = "response" =>
                       /\ upstream[FirstPrimary] # 0
                       /\ Heads[i].status = upstream[FirstPrimary]

\* A later primary has responded with 301 and ended while the first
\* primary has emitted nothing yet: no head is written.
LaterPrimaryStreamedUnheard ==
    \E f \in LaterPrimaries :
        /\ upstream[f] = 301
        /\ fragments[f] = "closed"
        /\ fragments[FirstPrimary] = "requesting"
        /\ Heads = << >>

\* C18: the handler emits its own 'response' at most once, only from the
\* primary's 'response' listener or from the 'finish' listener, and the next
\* thing it does is response.writeHead with the same status and headers.
ResponseEmittedOnceThenHead ==
    /\ Emitted("response") <= 1
    /\ \A i \in DOMAIN log :
           IsEmit(log[i], "response") =>
               /\ log[i].by \in {"response", "finish"}
               /\ i + 1 \in DOMAIN log
               /\ log[i + 1] = WriteHead(log[i].status, log[i].headers, log[i].by)

\* The primary's 'response' listener has emitted 'response' after its
\* 'fallback' listener had written a head, and the processor has finished.
ResponseEmittedAfterFallback ==
    /\ resultStream.finished
    /\ Emitted("response") = 1
    /\ Len(Heads) = 2
    /\ Heads[1].by = "fallback"
    /\ Heads[2].by = "response"

(***************************************************************************)
(* Claims about the re-emission of fragment events                         *)
(***************************************************************************)
\* C12: for every announced fragment and each of the seven lifecycle
\* events, every emission by the fragment is re-emitted on the handler as
\* 'fragment:<event>', and the handler emits 'fragment:<event>' only for
\* emissions of the fragment: the two counts are always equal.
EveryEmissionReemitted ==
    \A f \in DOMAIN lifecycle :
        \A e \in FRAGMENT_EVENTS : reemitted[f][e] = emitted[f][e]

(***************************************************************************)
(* Claims about the preload hints                                          *)
(***************************************************************************)
\* The host a script uri points to: what stands between "://" and the next
\* "/", and the host of the page for a relative uri.
RECURSIVE UpToSlash(_)
UpToSlash(str) ==
    IF str = << >> \/ Head(str) = "/" THEN << >>
    ELSE << Head(str) >> \o UpToSlash(Tail(str))

HostOf(uri, pageHost) ==
    IF Len(uri) > 3 /\ SubSeq(uri, 2, 4) = << ":", "/", "/" >>
    THEN UpToSlash(SubSeq(uri, 5, Len(uri)))
    ELSE pageHost

\* The value the claim describes: a hint per stylesheet ref, then a hint
\* per fragment-script ref that carries crossorigin exactly when the host of
\* the script differs from the host of the request.
ClaimedLink(refs, host) ==
    LET scriptRefs == UrisOfRel(refs, "fragment-script")
        styleRefs == UrisOfRel(refs, "stylesheet")
    IN  Join([i \in DOMAIN styleRefs |-> StyleHint(styleRefs[i])]
             \o [i \in DOMAIN scriptRefs |->
                    ScriptHint(scriptRefs[i],
                               IF HostOf(scriptRefs[i], host) # host
                               THEN << "crossorigin" >> ELSE << >>)])

\* C13: for a request with a host, the response's link header is set
\* exactly when the primary's link header has a stylesheet or fragment-script
\* ref, and its value is the stylesheet hints followed by the script hints,
\* joined by ',', a script hint carrying crossorigin exactly when the
\* script's host differs from the request's host.
LinkHeaderAsClaimed ==
    (responseLink.responded /\ requestHost # << >>) =>
        /\ responseLink.set <=>
               /\ headersLink.present
               /\ \E i \in DOMAIN headersLink.refs :
                      headersLink.refs[i].rel \in {"stylesheet", "fragment-script"}
        /\ responseLink.set =>
               responseLink.value = ClaimedLink(headersLink.refs, requestHost)

(***************************************************************************)
(* Claims about src/pipe.js                                                *)
(***************************************************************************)
\* The document after end(index) as the claim describes it: the nodes
\* between the start script and the end of the document stand where the
\* placeholder stood, or stay where they are without a placeholder, and the
\* placeholder, the start script and the end script are gone.
AfterEnd(f) ==
    LET s == Position(childNodes, starts[f])
        content == SubSeq(childNodes, s + 1, Len(childNodes))
    IN  IF f \in DOMAIN placeholders
        THEN LET p == Position(childNodes, placeholders[f])
             IN  SubSeq(childNodes, 1, p - 1) \o content
                 \o SubSeq(childNodes, p + 1, s - 1)
        ELSE SubSeq(childNodes, 1, s - 1) \o content

\* C17: a step that runs end(index) for a fragment with a registered
\* placeholder moves every node from the start script to the end script, in
\* their order, to just before the placeholder and removes the placeholder
\* and the two scripts; without a placeholder the nodes stay where they are
\* and the two scripts are removed.
EndMovesFragmentToPlaceholder ==
    [][\A f \in DOMAIN streamed :
           (streamed[f].phase = "open" /\ streamed'[f].phase = "ended")
               => childNodes' = AfterEnd(f)]_pipeVars

\* An async fragment with two nodes has ended: its nodes stand in their
\* order between the node that preceded its placeholder and the node that
\* followed it, and none of its scripts is left.
FragmentMovedToPlaceholder ==
    \E f \in DOMAIN streamed :
        /\ streamed[f].async
        /\ streamed[f].phase = "ended"
        /\ \E k \in DOMAIN childNodes :
               /\ k - 1 \in DOMAIN childNodes
               /\ k + 2 \in DOMAIN childNodes
               /\ childNodes[k - 1].index # f
               /\ childNodes[k] = Node("text", f, 1, FALSE)
               /\ childNodes[k + 1] = Node("element", f, 2, FALSE)
               /\ childNodes[k + 2].index # f
        /\ \A k \in DOMAIN childNodes :
               childNodes[k].index = f => ~IsScript(childNodes[k])

\* How often hook was called for fragment f.
Calls(f, hook) ==
    Cardinality({k \in DOMAIN hookCalls[f] : hookCalls[f][k] = hook})

\* The fragments started with a script whose initialisation has not
\* completed: the calls of onStart less the calls of onAfterInit, for the
\* fragments 1..n.
RECURSIVE Initialising(_)
Initialising(n) ==
    IF n = 0 THEN 0
    ELSE Initialising(n - 1) + Calls(n, "onStart") - Calls(n, "onAfterInit")

\* The initialisation of fragment f has completed.
Initialised(f) == streamed[f].init \in {"done", "fulfilled", "rejected"}

\* C14: once every fragment started with a script has completed its
\* initialisation and the document has finished parsing, in whichever order
\* the two happened, onDone has been called.
OnDoneFiresWhenAllIsDone ==
    ( /\ readyState \in {"interactive", "complete"}
      /\ \E f \in DOMAIN streamed : streamed[f].script
      /\ \A f \in DOMAIN streamed : streamed[f].script => Initialised(f) )
        => Len(onDoneCalls) >= 1

HooksInOrderEachOnce ==
    \A f \in DOMAIN streamed :
        /\ \E n \in 0..3 :
               hookCalls[f] = SubSeq(<< "onStart", "onBeforeInit", "onAfterInit" >>, 1, n)
        /\ streamed[f].init \in {"done", "fulfilled", "rejected", "threw"} =>
               hookCalls[f] = << "onStart", "onBeforeInit", "onAfterInit" >>

(***************************************************************************)
(* Claims about the index generator                                        *)
(***************************************************************************)
\* C11: the k-th call (k = 0, 1, 2, ...) of a request's nextIndex returns
\* k * maxAssetLinks whatever the other requests have called, so with
\* maxAssetLinks >= 1 the indices of one request are strictly increasing
\* (hence unique).
IndicesAreMultiplesOfStep ==
    \A r \in RequestIds :
        /\ \A k \in DOMAIN indices[r] : indices[r][k] = (k - 1) * maxAssetLinks
        /\ maxAssetLinks >= 1 =>
               \A j, k \in DOMAIN indices[r] : j < k => indices[r][j] < indices[r][k]

\* Two requests have both called their generators, one more often than the
\* other, with a step larger than one.
TwoRequestsInterleaved ==
    /\ maxAssetLinks > 1
    /\ Len(indices[1]) >= 3
    /\ Len(indices[2]) >= 1
    /\ Len(indices[2]) < Len(indices[1])

====
